---- MODULE Spec2Model ----
(***************************************************************************)
(* Model of neo4j-testcontainers (src/lib.rs): the Neo4j builder, its      *)
(* finalisation into a Neo4jImage, and the URI helpers.                    *)
(*                                                                         *)
(* A Rust String is modelled as the sequence of its characters, each a     *)
(* one-character string of printable ASCII, so that len() is Len, the      *)
(* String ordering is the bytewise lexicographic one, and format!/join     *)
(* are concatenations.  Option<T> is the set {} (None) or {x} (Some(x)).   *)
(* The keys of env_vars are literals of the program and are kept as        *)
(* strings; the HashMap is a function on the set of its keys.              *)
(***************************************************************************)
EXTENDS Integers, Sequences, FiniteSets, TLC

VARIABLES
    env,      \* process environment: variable name -> Option<String>
    pc,       \* "start" | "builder" | "built" | "running"
    ctor,     \* the constructor that was called, with the arguments given to new()
    neo4j,    \* the Neo4j builder (as it was when build consumed it, once built)
    image,    \* the Neo4jImage returned by build
    ports,    \* the running container's port mappings (testcontainers' Ports)
    result    \* outcome of the last URI helper call

vars == <<env, pc, ctor, neo4j, image, ports, result>>

-----------------------------------------------------------------------------
(* Bounds of the model *)

\* total number of plugin identifiers attached to one builder
MaxPlugins == 3
\* length of the slice given to one with_neo4j_labs_plugin call
MaxSlice == 2
\* explicit passwords are the prefixes of LongPass up to this length
MaxPassLen == 9

-----------------------------------------------------------------------------
(* Strings *)

Ascii ==
    << " ", "!", "\"", "#", "$", "%", "&", "'", "(", ")", "*", "+", ",", "-", ".", "/",
       "0", "1", "2", "3", "4", "5", "6", "7", "8", "9", ":", ";", "<", "=", ">", "?",
       "@", "A", "B", "C", "D", "E", "F", "G", "H", "I", "J", "K", "L", "M", "N", "O",
       "P", "Q", "R", "S", "T", "U", "V", "W", "X", "Y", "Z", "[", "\\", "]", "^", "_",
       "GRAVE", "a", "b", "c", "d", "e", "f", "g", "h", "i", "j", "k", "l", "m", "n", "o",
       "p", "q", "r", "s", "t", "u", "v", "w", "x", "y", "z", "{", "|", "}", "~" >>

\* the byte of an ASCII character (its position in the table, from 0x20);
\* the entry at 0x60 is a placeholder for the grave accent, which no string here holds
Byte(c) == 31 + (CHOOSE i \in DOMAIN Ascii : Ascii[i] = c)

Digits == << "0", "1", "2", "3", "4", "5", "6", "7", "8", "9" >>

\* usize::to_string / Display for u16: decimal, no padding
RECURSIVE to_string(_)
to_string(n) ==
    IF n < Len(Digits) THEN << Digits[n + 1] >>
    ELSE to_string(n \div Len(Digits)) \o << Digits[(n % Len(Digits)) + 1] >>

\* Ord for String: bytewise lexicographic, a proper prefix is smaller
RECURSIVE str_cmp(_, _)
str_cmp(a, b) ==
    IF a = << >> /\ b = << >> THEN "Equal"
    ELSE IF a = << >> THEN "Less"
    ELSE IF b = << >> THEN "Greater"
    ELSE IF Byte(Head(a)) < Byte(Head(b)) THEN "Less"
    ELSE IF Byte(Head(a)) > Byte(Head(b)) THEN "Greater"
    ELSE str_cmp(Tail(a), Tail(b))

\* [String]::join(sep)
RECURSIVE join(_, _)
join(strs, sep) ==
    IF strs = << >> THEN << >>
    ELSE IF Len(strs) = 1 THEN strs[1]
    ELSE strs[1] \o sep \o join(Tail(strs), sep)

-----------------------------------------------------------------------------
(* enum Neo4jLabsPlugin *)

Apoc == << "Apoc" >>
ApocCore == << "ApocCore" >>
Bloom == << "Bloom" >>
Streams == << "Streams" >>
GraphDataScience == << "GraphDataScience" >>
NeoSemantics == << "NeoSemantics" >>
Custom(plugin_name) == << "Custom", plugin_name >>

\* the variants in declaration order, which is the order #[derive(Ord)] compares by
Variants ==
    << "Apoc", "ApocCore", "Bloom", "Streams", "GraphDataScience", "NeoSemantics", "Custom" >>

discriminant(p) == CHOOSE i \in DOMAIN Variants : Variants[i] = p[1]

\* impl Display for Neo4jLabsPlugin (formatter.pad without width or precision)
fmt(p) ==
    CASE p[1] = "Apoc" -> << "a", "p", "o", "c" >>
      [] p[1] = "ApocCore" -> << "a", "p", "o", "c", "-", "c", "o", "r", "e" >>
      [] p[1] = "Bloom" -> << "b", "l", "o", "o", "m" >>
      [] p[1] = "Streams" -> << "s", "t", "r", "e", "a", "m", "s" >>
      [] p[1] = "GraphDataScience" ->
            << "g", "r", "a", "p", "h", "-", "d", "a", "t", "a", "-",
               "s", "c", "i", "e", "n", "c", "e" >>
      [] p[1] = "NeoSemantics" -> << "n", "1", "0", "s" >>
      [] p[1] = "Custom" -> p[2]

\* a variant of cmp that orders the identifiers by their canonical names
cmp_by_name(p, q) == str_cmp(fmt(p), fmt(q))

\* #[derive(PartialOrd, Ord)]: by variant, then by the fields of the variant
cmp(p, q) ==
    IF discriminant(p) < discriminant(q) THEN "Less"
    ELSE IF discriminant(p) > discriminant(q) THEN "Greater"
    ELSE IF p[1] = "Custom" THEN str_cmp(p[2], q[2])
    ELSE "Equal"

\* a variant of eq that equates the identifiers of the same canonical name
eq_by_name(p, q) == fmt(p) = fmt(q)

\* #[derive(PartialEq, Eq)]: same variant with equal fields
eq(p, q) ==
    /\ discriminant(p) = discriminant(q)
    /\ p[1] = "Custom" => p[2] = q[2]

-----------------------------------------------------------------------------
(* Vec<Neo4jLabsPlugin>::sort and ::dedup *)

\* place x behind every element that is not greater than it (the sort is stable)
RECURSIVE insert_sorted(_, _)
insert_sorted(v, x) ==
    IF v = << >> THEN << x >>
    ELSE IF cmp(x, Head(v)) = "Less" THEN << x >> \o v
    ELSE << Head(v) >> \o insert_sorted(Tail(v), x)

\* a variant of sort that leaves the order of attachment
sort_none(v) == v

RECURSIVE sort(_)
sort(v) ==
    IF v = << >> THEN << >>
    ELSE insert_sorted(sort(SubSeq(v, 1, Len(v) - 1)), v[Len(v)])

\* remove consecutive repeated elements, keeping the first of each run
RECURSIVE dedup(_)
dedup(v) ==
    IF Len(v) < 2 THEN v
    ELSE IF eq(v[1], v[2]) THEN dedup(<< v[1] >> \o SubSeq(v, 3, Len(v)))
    ELSE << v[1] >> \o dedup(Tail(v))

-----------------------------------------------------------------------------
(* struct Neo4j: construction *)

USER_VAR == "NEO4J_TEST_USER"
PASS_VAR == "NEO4J_TEST_PASS"
VERSION_VAR == "NEO4J_VERSION_TAG"

DEFAULT_USER == << "n", "e", "o", "4", "j" >>
DEFAULT_PASS == << "n", "e", "o" >>
DEFAULT_VERSION_TAG == << "5" >>

\* std::env::var(name).ok(): Some(value) when the variable is set, None when it is not
var(e, name) == e[name]

\* Option::or_else
or_else(opt, other) == IF opt # {} THEN opt ELSE other

\* Option::unwrap_or_else
unwrap_or_else(opt, default) == IF opt # {} THEN CHOOSE x \in opt : TRUE ELSE default

\* the user resolved by Neo4j::new
new_user(e, user) == unwrap_or_else(or_else(user, var(e, USER_VAR)), DEFAULT_USER)

\* a variant of new_pass in which the override wins over the explicit argument
new_pass_env_first(e, pass) ==
    unwrap_or_else(or_else(var(e, PASS_VAR), pass), DEFAULT_PASS)

\* the pass resolved by Neo4j::new
new_pass(e, pass) == unwrap_or_else(or_else(pass, var(e, PASS_VAR)), DEFAULT_PASS)

\* the version resolved by Neo4j::new
new_version(e, version) ==
    unwrap_or_else(or_else(version, var(e, VERSION_VAR)), DEFAULT_VERSION_TAG)

\* Neo4j::new(user, pass, version), run in the process environment e
new(e, user, pass, version) ==
    [ version |-> new_version(e, version),
      user |-> new_user(e, user),
      pass |-> new_pass(e, pass),
      plugins |-> << >> ]

from_env(e) == new(e, {}, {}, {})

from_version(e, version) == new(e, {}, {}, {version})

from_auth_and_version(e, version, user, pass) == new(e, {user}, {pass}, {version})

\* Neo4j::with_neo4j_labs_plugin: Vec::extend_from_slice
with_neo4j_labs_plugin(self, plugins) ==
    [self EXCEPT !.plugins = self.plugins \o plugins]

-----------------------------------------------------------------------------
(* struct Neo4jImage *)

\* a variant of Neo4jImage::new with user and pass exchanged
Neo4jImage_new_swapped(version, user, pass, env_vars) ==
    [ version |-> version, user |-> pass, pass |-> user, env_vars |-> env_vars ]

Neo4jImage_new(version, user, pass, env_vars) ==
    [ version |-> version, user |-> user, pass |-> pass, env_vars |-> env_vars ]

version(img) == img.version

user(img) == img.user

pass(img) == img.pass

\* Image::name
name(img) == << "n", "e", "o", "4", "j" >>

\* Image::tag
tag(img) == img.version

-----------------------------------------------------------------------------
(* Neo4j: the derivations of the environment and build *)

AUTH_KEY == "NEO4J_AUTH"
PLUGINS_KEY == "NEO4JLABS_PLUGINS"
CONF_KEY == "NEO4J_dbms_security_auth__minimum__password__length"

\* format!("{}/{}", self.user, self.pass)
auth_value(self) == self.user \o << "/" >> \o self.pass

\* a variant of auth_env that separates user and pass by a colon
auth_env_colon(self) == { << AUTH_KEY, self.user \o << ":" >> \o self.pass >> }

auth_env(self) == { << AUTH_KEY, auth_value(self) >> }

\* format!("\"{}\"", p)
quoted(p) == << "\"" >> \o fmt(p) \o << "\"" >>

\* a variant of plugins_env without the early return on an empty list
plugins_env_always(self) ==
    { << PLUGINS_KEY,
         << "[" >>
         \o join([i \in DOMAIN self.plugins |-> quoted(self.plugins[i])], << "," >>)
         \o << "]" >> >> }

plugins_env(self) ==
    IF self.plugins = << >> THEN {}
    ELSE LET plugin_names ==
                 join([i \in DOMAIN self.plugins |-> quoted(self.plugins[i])], << "," >>)
             plugin_definition == << "[" >> \o plugin_names \o << "]" >>
         IN  { << PLUGINS_KEY, plugin_definition >> }

\* a variant of conf_env that also guards a password of length 8
conf_env_inclusive(self) ==
    IF Len(self.pass) <= 8 THEN { << CONF_KEY, to_string(Len(self.pass)) >> }
    ELSE {}

\* a variant of conf_env that writes the length under the key of auth_env
conf_env_auth_key(self) ==
    IF Len(self.pass) < 8 THEN { << AUTH_KEY, to_string(Len(self.pass)) >> }
    ELSE {}

conf_env(self) ==
    IF Len(self.pass) < 8 THEN { << CONF_KEY, to_string(Len(self.pass)) >> }
    ELSE {}

\* HashMap::new
HashMap_new == [k \in {} |-> << >>]

\* HashMap::insert: a later value replaces an earlier one under the same key
insert(m, key, value) ==
    [k \in DOMAIN m \cup {key} |-> IF k = key THEN value ELSE m[k]]

\* for (key, value) in entries { env_vars.insert(key, value); }
insert_all(m, entries) ==
    IF entries = {} THEN m
    ELSE LET kv == CHOOSE kv \in entries : TRUE IN insert(m, kv[1], kv[2])

\* self after self.plugins.sort(); self.plugins.dedup();
normalized(self) == [self EXCEPT !.plugins = dedup(sort(self.plugins))]

build(self0) ==
    LET self == normalized(self0)
        env_vars ==
            insert_all(insert_all(insert_all(HashMap_new, auth_env(self)),
                                  plugins_env(self)),
                       conf_env(self))
    IN  Neo4jImage_new(self.version, self.user, self.pass, env_vars)

-----------------------------------------------------------------------------
(* Inputs *)

ENV_USER == << "a", "d", "m", "i", "n" >>
ENV_PASS == << "c", "h", "a", "n", "g", "e", "m", "e" >>
ENV_VERSION == << "4", ".", "4" >>

ARG_USER == << "u" >>
ARG_VERSION == << "5", ".", "1", "2" >>
LongPass ==
    << "l", "o", "n", "g", "p", "a", "s", "s", "w", "o", "r", "d", "1", "2", "3" >>

\* every process environment in which each override is either unset or set
Environments ==
    { e \in [{USER_VAR, PASS_VAR, VERSION_VAR} -> {{}, {ENV_USER}, {ENV_PASS}, {ENV_VERSION}}] :
        /\ e[USER_VAR] \subseteq {ENV_USER}
        /\ e[PASS_VAR] \subseteq {ENV_PASS}
        /\ e[VERSION_VAR] \subseteq {ENV_VERSION} }

\* explicit passwords of every length from 0 to MaxPassLen
ArgPasswords == { SubSeq(LongPass, 1, n) : n \in 0..MaxPassLen }

SamplePasswords == { << >>, LongPass }

PluginUniverse ==
    { Apoc, ApocCore, Bloom, Streams, GraphDataScience, NeoSemantics,
      Custom(<< "a", "p", "o", "c" >>), Custom(<< "a", "b", "c" >>) }

SamplePlugins == { Apoc, Bloom }

\* the slices of at most maxlen identifiers one with_neo4j_labs_plugin call may be given
Slices(universe, maxlen) == UNION { [1..n -> universe] : n \in 0..maxlen }

Min(a, b) == IF a < b THEN a ELSE b

-----------------------------------------------------------------------------
(* The builder's life: construct, attach plugins, build *)

NoCtor == [ fn |-> "none", user |-> {}, pass |-> {}, version |-> {} ]
NoNeo4j == [ version |-> << >>, user |-> << >>, pass |-> << >>, plugins |-> << >> ]
NoImage == [ version |-> << >>, user |-> << >>, pass |-> << >>, env_vars |-> HashMap_new ]
NoPorts == [ ipv4 |-> [p \in {} |-> 0], ipv6 |-> [p \in {} |-> 0] ]
NoResult == [ call |-> "none", panicked |-> FALSE, uri |-> {} ]

Init ==
    /\ env \in Environments
    /\ pc = "start"
    /\ ctor = NoCtor
    /\ neo4j = NoNeo4j
    /\ image = NoImage
    /\ ports = NoPorts
    /\ result = NoResult

FromEnv ==
    /\ pc = "start"
    /\ neo4j' = from_env(env)
    /\ ctor' = [ fn |-> "from_env", user |-> {}, pass |-> {}, version |-> {} ]
    /\ pc' = "builder"
    /\ UNCHANGED <<env, image, ports, result>>

FromVersion ==
    /\ pc = "start"
    /\ \E v \in {ARG_VERSION} :
        /\ neo4j' = from_version(env, v)
        /\ ctor' = [ fn |-> "from_version", user |-> {}, pass |-> {}, version |-> {v} ]
    /\ pc' = "builder"
    /\ UNCHANGED <<env, image, ports, result>>

FromAuthAndVersion(passwords) ==
    /\ pc = "start"
    /\ \E v \in {ARG_VERSION}, u \in {ARG_USER}, p \in passwords :
        /\ neo4j' = from_auth_and_version(env, v, u, p)
        /\ ctor' = [ fn |-> "from_auth_and_version",
                     user |-> {u}, pass |-> {p}, version |-> {v} ]
    /\ pc' = "builder"
    /\ UNCHANGED <<env, image, ports, result>>

WithNeo4jLabsPlugin(universe) ==
    /\ pc = "builder"
    /\ \E plugins \in Slices(universe, Min(MaxSlice, MaxPlugins - Len(neo4j.plugins))) :
        neo4j' = with_neo4j_labs_plugin(neo4j, plugins)
    /\ UNCHANGED <<env, pc, ctor, image, ports, result>>

Build ==
    /\ pc = "builder"
    /\ image' = build(neo4j)
    /\ pc' = "built"
    /\ UNCHANGED <<env, ctor, neo4j, ports, result>>

\* every plugin identifier, with the empty and a long explicit password
Next ==
    \/ FromEnv
    \/ FromVersion
    \/ FromAuthAndVersion(SamplePasswords)
    \/ WithNeo4jLabsPlugin(PluginUniverse)
    \/ Build

Spec == Init /\ [][Next]_vars

\* explicit passwords of every length, with two plugin identifiers
NextConf ==
    \/ FromEnv
    \/ FromVersion
    \/ FromAuthAndVersion(ArgPasswords)
    \/ WithNeo4jLabsPlugin(SamplePlugins)
    \/ Build

SpecConf == Init /\ [][NextConf]_vars

-----------------------------------------------------------------------------
(* The URI helpers, called on a running container *)

\* Ports::map_to_host_port_ipv4 of the container handle: the host port mapped to
\* an internal port over IPv4, None when there is no such mapping
map_to_host_port_ipv4(container_ports, internal_port) ==
    IF internal_port \in DOMAIN container_ports.ipv4
    THEN { container_ports.ipv4[internal_port] }
    ELSE {}

\* Ports::map_to_host_port_ipv6, likewise over IPv6
map_to_host_port_ipv6(container_ports, internal_port) ==
    IF internal_port \in DOMAIN container_ports.ipv6
    THEN { container_ports.ipv6[internal_port] }
    ELSE {}

\* Option::expect followed by the format! of the helper: a panic on None, and
\* otherwise the prefix followed by the port in decimal
expect_format(call, prefix, port) ==
    IF port = {} THEN [ call |-> call, panicked |-> TRUE, uri |-> {} ]
    ELSE [ call |-> call, panicked |-> FALSE,
           uri |-> { prefix \o to_string(CHOOSE h \in port : TRUE) } ]

BoltIpv4Prefix ==
    << "b", "o", "l", "t", ":", "/", "/", "1", "2", "7", ".", "0", ".", "0", ".", "1", ":" >>
BoltIpv6Prefix == << "b", "o", "l", "t", ":", "/", "/", "[", ":", ":", "1", "]", ":" >>
HttpIpv4Prefix ==
    << "h", "t", "t", "p", ":", "/", "/", "1", "2", "7", ".", "0", ".", "0", ".", "1", ":" >>
HttpIpv6Prefix == << "h", "t", "t", "p", ":", "/", "/", "[", ":", ":", "1", "]", ":" >>

uri_ipv4(container_ports) ==
    expect_format("uri_ipv4", BoltIpv4Prefix, map_to_host_port_ipv4(container_ports, 7687))

uri_ipv6(container_ports) ==
    expect_format("uri_ipv6", BoltIpv6Prefix, map_to_host_port_ipv6(container_ports, 7687))

bolt_uri_ipv4(container_ports) ==
    expect_format("bolt_uri_ipv4", BoltIpv4Prefix,
                  map_to_host_port_ipv4(container_ports, 7687))

bolt_uri_ipv6(container_ports) ==
    expect_format("bolt_uri_ipv6", BoltIpv6Prefix,
                  map_to_host_port_ipv6(container_ports, 7687))

http_uri_ipv4(container_ports) ==
    expect_format("http_uri_ipv4", HttpIpv4Prefix,
                  map_to_host_port_ipv4(container_ports, 7474))

\* a variant of http_uri_ipv6 that looks the port up in the IPv4 mappings
http_uri_ipv6_by_ipv4(container_ports) ==
    expect_format("http_uri_ipv6", HttpIpv6Prefix,
                  map_to_host_port_ipv4(container_ports, 7474))

http_uri_ipv6(container_ports) ==
    expect_format("http_uri_ipv6", HttpIpv6Prefix,
                  map_to_host_port_ipv6(container_ports, 7474))

\* the ports the neo4j image can expose, and the host ports they may be mapped to
InternalPorts == { 7473, 7474, 7687 }
HostPorts == { 7687, 32768, 49153 }

\* every mapping of some of the internal ports to host ports
PortMappings == UNION { [exposed -> HostPorts] : exposed \in SUBSET InternalPorts }

\* a container running the image built from the default builder, whatever the
\* orchestration mapped its ports to
InitUri ==
    /\ env = [ n \in {USER_VAR, PASS_VAR, VERSION_VAR} |-> {} ]
    /\ pc = "running"
    /\ ctor = [ fn |-> "from_env", user |-> {}, pass |-> {}, version |-> {} ]
    /\ neo4j = from_env(env)
    /\ image = build(neo4j)
    /\ ports \in [ ipv4 : PortMappings, ipv6 : PortMappings ]
    /\ result = NoResult

UriIpv4 ==
    /\ pc = "running"
    /\ result' = uri_ipv4(ports)
    /\ UNCHANGED <<env, pc, ctor, neo4j, image, ports>>

UriIpv6 ==
    /\ pc = "running"
    /\ result' = uri_ipv6(ports)
    /\ UNCHANGED <<env, pc, ctor, neo4j, image, ports>>

BoltUriIpv4 ==
    /\ pc = "running"
    /\ result' = bolt_uri_ipv4(ports)
    /\ UNCHANGED <<env, pc, ctor, neo4j, image, ports>>

BoltUriIpv6 ==
    /\ pc = "running"
    /\ result' = bolt_uri_ipv6(ports)
    /\ UNCHANGED <<env, pc, ctor, neo4j, image, ports>>

HttpUriIpv4 ==
    /\ pc = "running"
    /\ result' = http_uri_ipv4(ports)
    /\ UNCHANGED <<env, pc, ctor, neo4j, image, ports>>

HttpUriIpv6 ==
    /\ pc = "running"
    /\ result' = http_uri_ipv6(ports)
    /\ UNCHANGED <<env, pc, ctor, neo4j, image, ports>>

NextUri ==
    \/ UriIpv4
    \/ UriIpv6
    \/ BoltUriIpv4
    \/ BoltUriIpv6
    \/ HttpUriIpv4
    \/ HttpUriIpv6

SpecUri == InitUri /\ [][NextUri]_vars

-----------------------------------------------------------------------------
(* Vocabulary of the properties *)

Range(s) == { s[i] : i \in DOMAIN s }

Built == pc = "built"

\* the plugin identifiers attached to the builder, as a set
Attached == Range(neo4j.plugins)

\* the canonical names of the attached identifiers
CanonicalNames == { fmt(p) : p \in Attached }

HasPluginsValue == PLUGINS_KEY \in DOMAIN image.env_vars

PluginsValue == image.env_vars[PLUGINS_KEY]

\* a <= b in the lexicographic order of strings
LexLeq(a, b) == str_cmp(a, b) \in { "Less", "Equal" }

\* the names, each in double quotes, separated by commas, in square brackets
RECURSIVE CommaSeparated(_)
CommaSeparated(names) ==
    IF names = << >> THEN << >>
    ELSE LET last == << "\"" >> \o names[Len(names)] \o << "\"" >>
         IN  IF Len(names) = 1 THEN last
             ELSE CommaSeparated(SubSeq(names, 1, Len(names) - 1)) \o << "," >> \o last

Listing(names) == << "[" >> \o CommaSeparated(names) \o << "]" >>

\* the pieces of a string between the commas
RECURSIVE SplitAtCommas(_)
SplitAtCommas(str) ==
    IF \A i \in DOMAIN str : str[i] # ","
    THEN << str >>
    ELSE LET i == CHOOSE i \in DOMAIN str : str[i] = "," /\ \A j \in 1..(i - 1) : str[j] # ","
         IN  << SubSeq(str, 1, i - 1) >> \o SplitAtCommas(SubSeq(str, i + 1, Len(str)))

\* the names listed in a NEO4JLABS_PLUGINS value (names without commas)
ListedNames(value) ==
    LET items == SplitAtCommas(SubSeq(value, 2, Len(value) - 1))
    IN  [i \in DOMAIN items |-> SubSeq(items[i], 2, Len(items[i]) - 1)]

\* p comes before q in the declaration order of the variants, Custom being the
\* last and two Custom ordered by their names
DeclaredBefore(p, q) ==
    \/ discriminant(p) < discriminant(q)
    \/ /\ p[1] = "Custom"
       /\ q[1] = "Custom"
       /\ p[2] # q[2]
       /\ LexLeq(p[2], q[2])

\* the identifiers of a set, each once, in that order
RECURSIVE InDeclaredOrder(_)
InDeclaredOrder(S) ==
    IF S = {} THEN << >>
    ELSE LET first == CHOOSE p \in S : \A q \in S \ {p} : DeclaredBefore(p, q)
         IN  << first >> \o InDeclaredOrder(S \ {first})

\* the number a decimal string denotes
RECURSIVE DecimalValue(_)
DecimalValue(str) ==
    IF str = << >> THEN 0
    ELSE 10 * DecimalValue(SubSeq(str, 1, Len(str) - 1))
         + ((CHOOSE d \in DOMAIN Digits : Digits[d] = str[Len(str)]) - 1)

\* str is the decimal notation of n: digits only, no leading zero
IsDecimalOf(str, n) ==
    /\ str # << >>
    /\ \A i \in DOMAIN str : \E d \in DOMAIN Digits : Digits[d] = str[i]
    /\ Len(str) > 1 => str[1] # "0"
    /\ DecimalValue(str) = n

-----------------------------------------------------------------------------
(* C1 *)

\* C1 as stated: when at least one plugin was attached, the NEO4JLABS_PLUGINS
\* value is the bracketed, comma-joined, double-quoted list of the canonical
\* names of the attached plugins in ascending lexicographic order of name.
C1_LexicographicOrder ==
    (Built /\ Attached # {}) =>
        /\ HasPluginsValue
        /\ LET names == ListedNames(PluginsValue)
           IN  /\ PluginsValue = Listing(names)
               /\ Range(names) = CanonicalNames
               /\ \A i \in 1..(Len(names) - 1) : LexLeq(names[i], names[i + 1])

\* C1 amended: when at least one plugin was attached, the NEO4JLABS_PLUGINS
\* value is the bracketed, comma-joined, double-quoted list of the canonical
\* names of the distinct attached identifiers, in the declaration order of the
\* variants (Apoc, ApocCore, Bloom, Streams, GraphDataScience, NeoSemantics,
\* Custom), the Custom identifiers last and ordered by their names.
C1_DeclarationOrder ==
    (Built /\ Attached # {}) =>
        /\ HasPluginsValue
        /\ LET ids == InDeclaredOrder(Attached)
           IN  PluginsValue = Listing([i \in DOMAIN ids |-> fmt(ids[i])])

\* plugins attached out of declaration order, with a Custom one, and built
C1_Witness ==
    /\ Built
    /\ neo4j.plugins = << Custom(<< "a", "b", "c" >>), GraphDataScience, Streams >>

-----------------------------------------------------------------------------
(* C2 *)

\* C2 as stated: no canonical name is listed more than once in the
\* NEO4JLABS_PLUGINS value, also when two attached identifiers format to the
\* same canonical name.
C2_NoNameTwice ==
    (Built /\ Attached # {}) =>
        /\ HasPluginsValue
        /\ LET names == ListedNames(PluginsValue)
           IN  \A i, j \in DOMAIN names : names[i] = names[j] => i = j

\* C2 amended: the NEO4JLABS_PLUGINS value lists one name for each distinct
\* attached identifier (a variant, and for Custom its name) and no more: equal
\* identifiers collapse, two different identifiers of the same canonical name
\* do not.
C2_NoIdentifierTwice ==
    (Built /\ Attached # {}) =>
        /\ HasPluginsValue
        /\ LET names == ListedNames(PluginsValue)
           IN  /\ Len(names) = Cardinality(Attached)
               /\ Range(names) = CanonicalNames

\* the same Custom identifier attached twice, around another identifier
C2_Witness ==
    /\ Built
    /\ neo4j.plugins = << Custom(<< "a", "b", "c" >>), Apoc, Custom(<< "a", "b", "c" >>) >>

-----------------------------------------------------------------------------
(* C3 *)

\* one enumeration of a set of identifiers, fixed by the set alone
RECURSIVE Enumeration(_)
Enumeration(S) ==
    IF S = {} THEN << >>
    ELSE LET p == CHOOSE p \in S : TRUE IN << p >> \o Enumeration(S \ {p})

\* a fresh builder of the same version, user and pass
Fresh == [neo4j EXCEPT !.plugins = << >>]

\* C3: the descriptor built depends on the attached identifiers only through
\* their set: it equals the descriptor built from a fresh builder of the same
\* version, user and pass to which one fixed enumeration of that set is
\* attached in a single call, so two sequences of calls attaching the same set
\* build equal descriptors.
C3_SetDeterminesImage ==
    Built => image = build(with_neo4j_labs_plugin(Fresh, Enumeration(Attached)))

\* a repeated and unordered attachment, whose list is not the enumeration
C3_Witness ==
    /\ Built
    /\ neo4j.plugins = << Bloom, Apoc, Bloom >>
    /\ neo4j.plugins # Enumeration(Attached)

-----------------------------------------------------------------------------
(* C4 *)

\* C4: a password shorter than 8 gives the minimum-password-length entry with
\* the password's length in decimal, a password of length 8 or more gives no
\* such entry.
C4_PasswordLengthGuard ==
    Built =>
        IF Len(neo4j.pass) < 8
        THEN /\ CONF_KEY \in DOMAIN image.env_vars
             /\ IsDecimalOf(image.env_vars[CONF_KEY], Len(neo4j.pass))
        ELSE CONF_KEY \notin DOMAIN image.env_vars

\* built with the empty password
C4_Witness ==
    /\ Built
    /\ neo4j.pass = << >>
    /\ CONF_KEY \in DOMAIN image.env_vars

-----------------------------------------------------------------------------
(* C5 *)

\* C5: the mapping built always holds NEO4J_AUTH with the value user/pass.
C5_Auth ==
    Built =>
        /\ AUTH_KEY \in DOMAIN image.env_vars
        /\ image.env_vars[AUTH_KEY] = neo4j.user \o << "/" >> \o neo4j.pass

\* built from explicit credentials with plugins attached
C5_Witness ==
    /\ Built
    /\ ctor.fn = "from_auth_and_version"
    /\ neo4j.plugins # << >>
    /\ Len(neo4j.pass) > 8

-----------------------------------------------------------------------------
(* C6 *)

\* the value of an override, or the fallback when it is not set
OverrideOr(variable, fallback) ==
    IF env[variable] = {} THEN fallback ELSE CHOOSE x \in env[variable] : TRUE

TheArg(arg) == CHOOSE x \in arg : TRUE

\* C6: from_auth_and_version takes the three arguments whatever the overrides,
\* from_version takes the version argument and resolves user and pass from
\* their overrides or fallbacks, from_env resolves all three from the
\* overrides or the fallbacks "5", "neo4j", "neo".
C6_Precedence ==
    LET envVersion == OverrideOr("NEO4J_VERSION_TAG", << "5" >>)
        envUser == OverrideOr("NEO4J_TEST_USER", << "n", "e", "o", "4", "j" >>)
        envPass == OverrideOr("NEO4J_TEST_PASS", << "n", "e", "o" >>)
    IN  /\ ctor.fn = "from_auth_and_version" =>
            /\ neo4j.version = TheArg(ctor.version)
            /\ neo4j.user = TheArg(ctor.user)
            /\ neo4j.pass = TheArg(ctor.pass)
        /\ ctor.fn = "from_version" =>
            /\ neo4j.version = TheArg(ctor.version)
            /\ neo4j.user = envUser
            /\ neo4j.pass = envPass
        /\ ctor.fn = "from_env" =>
            /\ neo4j.version = envVersion
            /\ neo4j.user = envUser
            /\ neo4j.pass = envPass

\* explicit arguments given while every override is set
C6_Witness ==
    /\ ctor.fn = "from_auth_and_version"
    /\ \A n \in DOMAIN env : env[n] # {}
    /\ neo4j.pass = << >>

-----------------------------------------------------------------------------
(* C7 *)

\* C7: the keys of the mapping built are NEO4J_AUTH, NEO4JLABS_PLUGINS exactly
\* when an identifier was attached, and the minimum-password-length key exactly
\* when the password is shorter than 8.
C7_KeySet ==
    Built =>
        DOMAIN image.env_vars =
            {AUTH_KEY}
            \cup (IF Attached # {} THEN {PLUGINS_KEY} ELSE {})
            \cup (IF Len(neo4j.pass) < 8 THEN {CONF_KEY} ELSE {})

\* no plugins and a long password: NEO4J_AUTH alone
C7_Witness ==
    /\ Built
    /\ Attached = {}
    /\ Len(neo4j.pass) >= 8
    /\ DOMAIN image.env_vars = {AUTH_KEY}

-----------------------------------------------------------------------------
(* C8 *)

\* what each helper is to use: scheme and host, internal port, IP family
Helpers ==
    [ uri_ipv4 |-> [ prefix |-> BoltIpv4Prefix, internal |-> 7687, family |-> "ipv4" ],
      uri_ipv6 |-> [ prefix |-> BoltIpv6Prefix, internal |-> 7687, family |-> "ipv6" ],
      bolt_uri_ipv4 |-> [ prefix |-> BoltIpv4Prefix, internal |-> 7687, family |-> "ipv4" ],
      bolt_uri_ipv6 |-> [ prefix |-> BoltIpv6Prefix, internal |-> 7687, family |-> "ipv6" ],
      http_uri_ipv4 |-> [ prefix |-> HttpIpv4Prefix, internal |-> 7474, family |-> "ipv4" ],
      http_uri_ipv6 |-> [ prefix |-> HttpIpv6Prefix, internal |-> 7474, family |-> "ipv6" ] ]

\* C8: a helper returns its scheme and host followed by the host port mapped
\* to its internal port in its IP family, and when there is no such mapping it
\* panics and returns no URI.
C8_UriOrPanic ==
    result.call # "none" =>
        LET h == Helpers[result.call]
            mapping == ports[h.family]
        IN  IF h.internal \in DOMAIN mapping
            THEN /\ ~result.panicked
                 /\ \E uri \in result.uri :
                        /\ result.uri = {uri}
                        /\ Len(uri) > Len(h.prefix)
                        /\ SubSeq(uri, 1, Len(h.prefix)) = h.prefix
                        /\ IsDecimalOf(SubSeq(uri, Len(h.prefix) + 1, Len(uri)),
                                       mapping[h.internal])
            ELSE /\ result.panicked
                 /\ result.uri = {}

\* the HTTP port is not mapped over IPv6 although every other port is
C8_Witness ==
    /\ result.call = "http_uri_ipv6"
    /\ result.panicked
    /\ 7474 \in DOMAIN ports.ipv4
    /\ 7687 \in DOMAIN ports.ipv6
    /\ 7474 \notin DOMAIN ports.ipv6

-----------------------------------------------------------------------------
(* C9 *)

\* C9: attaching plugins and building leave version, user and pass as resolved
\* at construction; the descriptor reports them, its tag is the version and its
\* name is "neo4j".
C9_CarriedThrough ==
    pc \in { "builder", "built" } =>
        /\ neo4j.version = new_version(env, ctor.version)
        /\ neo4j.user = new_user(env, ctor.user)
        /\ neo4j.pass = new_pass(env, ctor.pass)
        /\ Built =>
            /\ version(image) = neo4j.version
            /\ user(image) = neo4j.user
            /\ pass(image) = neo4j.pass
            /\ tag(image) = neo4j.version
            /\ name(image) = << "n", "e", "o", "4", "j" >>

\* built after plugins were attached in more than one call
C9_Witness ==
    /\ Built
    /\ Len(neo4j.plugins) > MaxSlice
    /\ ctor.fn = "from_version"
    /\ env["NEO4J_VERSION_TAG"] # {}

-----------------------------------------------------------------------------
(* C10 *)

\* what the three derivations emit for the builder as build normalizes it
Emitted ==
    LET self == normalized(neo4j)
    IN  auth_env(self) \cup plugins_env(self) \cup conf_env(self)

\* C10: the entries emitted by the three derivations have pairwise distinct
\* keys, and each is in the mapping built with the value it was emitted with.
C10_NoOverwrite ==
    Built =>
        /\ \A a, b \in Emitted : a[1] = b[1] => a = b
        /\ \A kv \in Emitted :
            /\ kv[1] \in DOMAIN image.env_vars
            /\ image.env_vars[kv[1]] = kv[2]

\* all three derivations emit an entry
C10_Witness ==
    /\ Built
    /\ Cardinality(Emitted) = 3
    /\ Cardinality(DOMAIN image.env_vars) = 3

====
